---- MODULE Spec2Model ----
(***************************************************************************)
(* The action-to-future bridge of holochain core: hold_aspect / publish    *)
(* dispatch an action into the action channel and return a future whose    *)
(* poll registers a waker, reads the state snapshot and checks a predicate.*)
(* The redux loop (reducer), the waker registry and the action channel are *)
(* the collaborators the futures call through Context.                     *)
(*                                                                         *)
(* A poll is four steps, each atomic, that interleave with the other       *)
(* futures' polls and with the redux loop:                                 *)
(*   PollStart  the executor takes the woken task; action_channel_error    *)
(*   Register   register_waker                                             *)
(*   TryState   try_state and the match on the snapshot (a local value)    *)
(*   Check      dispatch of ClearActionResponse, unregister_waker, return  *)
(* The redux loop reduces one queued action and publishes the snapshot     *)
(* (Reduce), then wakes every registered waker (WakeAll); it can end only  *)
(* between two actions (Kill). A waker woken while its task is inside poll *)
(* leaves the task scheduled, so the task is polled again.                 *)
(***************************************************************************)
EXTENDS Naturals, Sequences, FiniteSets, TLC

\* Number of futures (calls of hold_aspect / publish) in one run.
MaxFutures == 2

Futures == 1..MaxFutures
Aspects == {"A", "B"}
Addresses == {"X"}

VARIABLES
    chanDead,     \* the action channel is permanently failed (redux loop gone)
    queue,        \* the action channel: ActionWrappers sent and not yet reduced
    dispatched,   \* history: every dispatch_action call, with the calling future
    nextId,       \* the ProcessUniqueId generator's counter
    stateReady,   \* try_state() yields a snapshot
    holding,      \* state.dht().get_holding_map()
    netInit,      \* state.network().initialized() is Ok
    actions,      \* state.network().actions(): ActionWrapper -> response
    rpc,          \* redux loop position: "idle" | "wake" (snapshot published, wake_all due)
    registry,     \* waker registry: suspension token -> waker (the task to wake)
    fut,          \* per future: kind, aspect / address, its ActionWrapper, its token
    pc,           \* per future: position inside poll
    woken,        \* per future: its task is scheduled for a poll
    out,          \* per future: what the poll in progress found in the snapshot it read
    result,       \* per future: what the last poll returned
    trace         \* per future: history, the steps the poll in progress has made

vars == <<chanDead, queue, dispatched, nextId, stateReady, holding, netInit,
          actions, rpc, registry, fut, pc, woken, out, result, trace>>

envVars == <<stateReady, holding, netInit, actions>>

----------------------------------------------------------------------------
\* Values

\* Poll<Result<_, HolochainError>>
Pending == [poll |-> "Pending", ok |-> FALSE, v |-> "-"]
ReadyOk(v) == [poll |-> "Ready", ok |-> TRUE, v |-> v]
ReadyErr(e) == [poll |-> "Ready", ok |-> FALSE, v |-> e]
Panicked == [poll |-> "Panic", ok |-> FALSE, v |-> "unreachable"]

\* A poll that stays Pending: nothing dispatched, the waker left registered
NoOutcome == [ret |-> Pending, clear |-> FALSE, unregister |-> FALSE]

ChannelError == "ChannelError"
NotInitialized == "NetworkNotInitialized"
PublishFailed == "PublishFailed"

NoSnapshot == [some |-> FALSE, holding |-> {}, netInit |-> FALSE, actions |-> <<>>]

\* context.try_state(): the current snapshot, or None while the store is not readable
try_state ==
    IF stateReady
    THEN [some |-> TRUE, holding |-> holding, netInit |-> netInit, actions |-> actions]
    ELSE NoSnapshot

\* ActionWrapper::new(action): the action with a fresh id
ActionWrapper(type, arg, id) == [type |-> type, arg |-> arg, id |-> id]

NoAction == ActionWrapper("none", "-", 0)
NoFuture == [kind |-> "none", target |-> "-", action |-> NoAction, id |-> 0]

\* context.action_channel_error(..): Some(err) once the channel is dead
action_channel_error == chanDead

\* dispatch_action: send on the channel; a send on a dead channel is dropped
dispatch_action(q, aw) == IF chanDead THEN q ELSE Append(q, aw)

\* context.register_waker(id, waker): insert or overwrite
register_waker(reg, id, waker) ==
    [t \in DOMAIN reg \cup {id} |-> IF t = id THEN waker ELSE reg[t]]

\* context.unregister_waker(id): remove if present
unregister_waker(reg, id) == [t \in DOMAIN reg \ {id} |-> reg[t]]

----------------------------------------------------------------------------
Init ==
    /\ chanDead = FALSE
    /\ queue = <<>>
    /\ dispatched = {}
    /\ nextId = 1
    /\ stateReady \in BOOLEAN
    /\ holding = {}
    /\ netInit \in BOOLEAN
    /\ actions = <<>>
    /\ rpc = "idle"
    /\ registry = <<>>
    /\ fut = [f \in Futures |-> NoFuture]
    /\ pc = [f \in Futures |-> "idle"]
    /\ woken = [f \in Futures |-> FALSE]
    /\ out = [f \in Futures |-> NoOutcome]
    /\ result = [f \in Futures |-> Pending]
    /\ trace = [f \in Futures |-> <<>>]

----------------------------------------------------------------------------
\* The futures' predicates, on a snapshot

\* Mutant: any held aspect counts, not this future's.
HoldingContains_Any(s, aspect) == s.holding # {}

\* state.dht().get_holding_map().contains(&self.aspect)
HoldingContains(s, aspect) == aspect \in s.holding

\* Mutant: the entry is looked up by the published address, not by the wrapper's id.
ActionsGet_ByAddress(s, aw) == {k \in DOMAIN s.actions : k.arg = aw.arg}

\* state.actions().get(&self.action): the entries stored under this ActionWrapper
ActionsGet(s, aw) == {k \in DOMAIN s.actions : k = aw}

\* Mutant: check-then-register, the snapshot is read before the waker is registered.
PollOrder_CheckThenRegister(s) ==
    CASE s = "start" -> "try_state"
      [] s = "try_state" -> "register"
      [] s = "register" -> "check"

\* Mutant: the waker is never registered.
PollOrder_NoRegister(s) ==
    CASE s = "start" -> "try_state"
      [] s = "try_state" -> "check"
      [] s = "register" -> "check"

\* The order of the steps of poll after the channel check:
\* register_waker, then try_state, then the check of the predicate.
PollOrder(s) ==
    CASE s = "start" -> "register"
      [] s = "register" -> "try_state"
      [] s = "try_state" -> "check"

\* Mutant: the waker is unregistered on every return, Pending included.
HoldOutcome_UnregisterAlways(s, aspect) ==
    IF s.some /\ HoldingContains(s, aspect)
    THEN [ret |-> ReadyOk("()"), clear |-> FALSE, unregister |-> TRUE]
    ELSE [ret |-> Pending, clear |-> FALSE, unregister |-> TRUE]

\* Mutant: a poll that gets no snapshot fails instead of staying Pending.
HoldOutcome_NoStateFails(s, aspect) ==
    IF s.some
    THEN IF HoldingContains(s, aspect)
         THEN [ret |-> ReadyOk("()"), clear |-> FALSE, unregister |-> TRUE]
         ELSE NoOutcome
    ELSE [ret |-> ReadyErr("StateNotReady"), clear |-> FALSE, unregister |-> TRUE]

\* HoldAspectFuture::poll, from the snapshot on: what it returns and whether it
\* unregisters the waker.
HoldOutcome(s, aspect) ==
    IF s.some
    THEN IF HoldingContains(s, aspect)
         THEN [ret |-> ReadyOk("()"), clear |-> FALSE, unregister |-> TRUE]
         ELSE NoOutcome
    ELSE NoOutcome

\* Mutant: the response is returned without dispatching ClearActionResponse.
PublishOutcome_NoClear(s, aw) ==
    IF s.some
    THEN IF ~s.netInit
         THEN [ret |-> ReadyErr(NotInitialized), clear |-> FALSE, unregister |-> FALSE]
         ELSE IF ActionsGet(s, aw) # {}
              THEN [ret |-> s.actions[CHOOSE k \in ActionsGet(s, aw) : TRUE].result,
                    clear |-> FALSE, unregister |-> TRUE]
              ELSE NoOutcome
    ELSE NoOutcome

\* Mutant: the response map is looked at before the network's initialization.
PublishOutcome_PredicateFirst(s, aw) ==
    IF s.some
    THEN IF ActionsGet(s, aw) # {}
         THEN [ret |-> s.actions[CHOOSE k \in ActionsGet(s, aw) : TRUE].result,
               clear |-> TRUE, unregister |-> TRUE]
         ELSE IF ~s.netInit
              THEN [ret |-> ReadyErr(NotInitialized), clear |-> FALSE, unregister |-> FALSE]
              ELSE NoOutcome
    ELSE NoOutcome

\* Mutant: the poll that fails with the initialization error also dispatches
\* ClearActionResponse when a response is stored.
PublishOutcome_ClearOnError(s, aw) ==
    IF s.some
    THEN IF ~s.netInit
         THEN [ret |-> ReadyErr(NotInitialized), clear |-> ActionsGet(s, aw) # {},
               unregister |-> FALSE]
         ELSE IF ActionsGet(s, aw) # {}
              THEN LET r == s.actions[CHOOSE k \in ActionsGet(s, aw) : TRUE]
                   IN IF r.kind = "Publish"
                      THEN [ret |-> r.result, clear |-> TRUE, unregister |-> TRUE]
                      ELSE [ret |-> Panicked, clear |-> FALSE, unregister |-> FALSE]
              ELSE NoOutcome
    ELSE NoOutcome

\* Mutant: ClearActionResponse is dispatched by every poll, also one that finds no
\* response yet and stays Pending.
PublishOutcome_EagerClear(s, aw) ==
    IF s.some
    THEN IF ~s.netInit
         THEN [ret |-> ReadyErr(NotInitialized), clear |-> FALSE, unregister |-> FALSE]
         ELSE IF ActionsGet(s, aw) # {}
              THEN LET r == s.actions[CHOOSE k \in ActionsGet(s, aw) : TRUE]
                   IN IF r.kind = "Publish"
                      THEN [ret |-> r.result, clear |-> TRUE, unregister |-> TRUE]
                      ELSE [ret |-> Panicked, clear |-> FALSE, unregister |-> FALSE]
              ELSE [ret |-> Pending, clear |-> TRUE, unregister |-> FALSE]
    ELSE NoOutcome

\* Mutant: a response of another variant is swallowed, the poll stays Pending.
PublishOutcome_FaultAsPending(s, aw) ==
    IF s.some
    THEN IF ~s.netInit
         THEN [ret |-> ReadyErr(NotInitialized), clear |-> FALSE, unregister |-> FALSE]
         ELSE IF ActionsGet(s, aw) # {}
              THEN LET r == s.actions[CHOOSE k \in ActionsGet(s, aw) : TRUE]
                   IN IF r.kind = "Publish"
                      THEN [ret |-> r.result, clear |-> TRUE, unregister |-> TRUE]
                      ELSE NoOutcome
              ELSE NoOutcome
    ELSE NoOutcome

\* Mutant: a stored domain failure is treated as a fault instead of being returned.
PublishOutcome_FailureAsFault(s, aw) ==
    IF s.some
    THEN IF ~s.netInit
         THEN [ret |-> ReadyErr(NotInitialized), clear |-> FALSE, unregister |-> FALSE]
         ELSE IF ActionsGet(s, aw) # {}
              THEN LET r == s.actions[CHOOSE k \in ActionsGet(s, aw) : TRUE]
                   IN IF r.kind = "Publish" /\ r.result.ok
                      THEN [ret |-> r.result, clear |-> TRUE, unregister |-> TRUE]
                      ELSE [ret |-> Panicked, clear |-> FALSE, unregister |-> FALSE]
              ELSE NoOutcome
    ELSE NoOutcome

\* PublishFuture::poll, from the snapshot on: what it returns, whether it
\* dispatches ClearActionResponse and whether it unregisters the waker.
PublishOutcome(s, aw) ==
    IF s.some
    THEN IF ~s.netInit
         THEN [ret |-> ReadyErr(NotInitialized), clear |-> FALSE, unregister |-> FALSE]
         ELSE IF ActionsGet(s, aw) # {}
              THEN LET r == s.actions[CHOOSE k \in ActionsGet(s, aw) : TRUE]
                   IN IF r.kind = "Publish"
                      THEN [ret |-> r.result, clear |-> TRUE, unregister |-> TRUE]
                      ELSE [ret |-> Panicked, clear |-> FALSE, unregister |-> FALSE]
              ELSE NoOutcome
    ELSE NoOutcome

\* What poll finds in the snapshot s: HoldAspectFuture's or PublishFuture's match
Outcome(f, s) ==
    IF fut[f].kind = "hold"
    THEN HoldOutcome(s, fut[f].target)
    ELSE PublishOutcome(s, fut[f].action)

\* The predicate of future f on the current state (what a read made now would see)
Pred(f) ==
    /\ stateReady
    /\ \/ fut[f].kind = "hold" /\ fut[f].target \in holding
       \/ fut[f].kind = "publish" /\ fut[f].action \in DOMAIN actions

Created(f) == fut[f].kind # "none"
Done(f) == pc[f] = "done"

----------------------------------------------------------------------------
\* The callers

\* The next future is made in the lowest free slot.
FreeSlot(f) == ~Created(f) /\ \A g \in Futures : g < f => Created(g)

\* Mutant: the future's token is the id of its ActionWrapper, not a fresh one.
MintToken_FromAction(aw, n) == aw.id

\* let id = ProcessUniqueId::new(): the generator's value n, made after the
\* ActionWrapper aw took its own id
MintToken(aw, n) == n

Spawn(f, kind, type, arg) ==
    LET aw == ActionWrapper(type, arg, nextId)
        id == MintToken(aw, nextId + 1)
    IN /\ FreeSlot(f)
       /\ queue' = dispatch_action(queue, aw)
       /\ dispatched' = dispatched \cup {[aw |-> aw, by |-> f]}
       /\ nextId' = nextId + 2
       /\ fut' = [fut EXCEPT ![f] = [kind |-> kind, target |-> arg, action |-> aw, id |-> id]]
       /\ woken' = [woken EXCEPT ![f] = TRUE]
       /\ UNCHANGED <<chanDead, envVars, rpc, registry, pc, out, result, trace>>

\* hold_aspect(aspect, context): dispatch Action::HoldAspect, mint the id, await the future
hold_aspect(f, aspect) == Spawn(f, "hold", "HoldAspect", aspect)

\* publish(address, context): dispatch Action::Publish, mint the id, await the future
publish(f, address) == Spawn(f, "publish", "Publish", address)

----------------------------------------------------------------------------
\* poll, step by step

\* Mutant: poll does not ask for the channel error.
PollChannelError_Unchecked(f) == FALSE

\* if let Some(err) = self.context.action_channel_error(..): the first thing poll does
PollChannelError(f) == action_channel_error

\* The executor runs a scheduled task; its poll first asks for the channel error.
PollStart(f) ==
    /\ Created(f) /\ pc[f] = "idle" /\ woken[f]
    /\ woken' = [woken EXCEPT ![f] = FALSE]
    /\ IF PollChannelError(f)
       THEN /\ result' = [result EXCEPT ![f] = ReadyErr(ChannelError)]
            /\ pc' = [pc EXCEPT ![f] = "done"]
       ELSE /\ result' = [result EXCEPT ![f] = Pending]
            /\ pc' = [pc EXCEPT ![f] = PollOrder("start")]
    /\ UNCHANGED <<chanDead, queue, dispatched, nextId, envVars, rpc, registry, fut,
                   out, trace>>

\* self.context.register_waker(self.id.clone(), cx.waker().clone())
Register(f) ==
    /\ pc[f] = "register"
    /\ registry' = register_waker(registry, fut[f].id, f)
    /\ trace' = [trace EXCEPT ![f] = Append(@, "register")]
    /\ pc' = [pc EXCEPT ![f] = PollOrder("register")]
    /\ UNCHANGED <<chanDead, queue, dispatched, nextId, envVars, rpc, fut, woken,
                   out, result>>

\* self.context.try_state() and the match on the snapshot
TryState(f) ==
    /\ pc[f] = "try_state"
    /\ out' = [out EXCEPT ![f] = Outcome(f, try_state)]
    /\ trace' = [trace EXCEPT ![f] = Append(@, "try_state")]
    /\ pc' = [pc EXCEPT ![f] = PollOrder("try_state")]
    /\ UNCHANGED <<chanDead, queue, dispatched, nextId, envVars, rpc, registry, fut,
                   woken, result>>

\* The rest of poll: the completion's effects (ClearActionResponse, unregister_waker)
\* and the return.
Check(f) ==
    /\ pc[f] = "check"
    /\ LET o == out[f]
           aw == ActionWrapper("ClearActionResponse", fut[f].action.id, nextId)
       IN /\ IF o.clear
             THEN /\ queue' = dispatch_action(queue, aw)
                  /\ dispatched' = dispatched \cup {[aw |-> aw, by |-> f]}
                  /\ nextId' = nextId + 1
             ELSE UNCHANGED <<queue, dispatched, nextId>>
          /\ registry' = IF o.unregister
                         THEN unregister_waker(registry, fut[f].id)
                         ELSE registry
          /\ result' = [result EXCEPT ![f] = o.ret]
          /\ pc' = [pc EXCEPT ![f] = IF o.ret = Pending THEN "idle" ELSE "done"]
    /\ out' = [out EXCEPT ![f] = NoOutcome]
    /\ trace' = [trace EXCEPT ![f] = <<>>]
    /\ UNCHANGED <<chanDead, envVars, rpc, fut, woken>>

----------------------------------------------------------------------------
\* The redux loop and the state store

\* The reducer's transition for one ActionWrapper
Reduced(aw, res) ==
    CASE aw.type = "HoldAspect" ->
           [holding |-> holding \cup {aw.arg}, actions |-> actions]
      [] aw.type = "Publish" ->
           [holding |-> holding,
            actions |-> [k \in DOMAIN actions \cup {aw} |->
                           IF k = aw THEN [kind |-> "Publish", result |-> res]
                           ELSE actions[k]]]
      [] aw.type = "ClearActionResponse" ->
           [holding |-> holding,
            actions |-> [k \in {k \in DOMAIN actions : k.id # aw.arg} |-> actions[k]]]

\* The loop takes the next action, reduces it and publishes the new snapshot.
Reduce ==
    /\ rpc = "idle" /\ ~chanDead /\ stateReady /\ queue # <<>>
    /\ LET aw == Head(queue)
       IN \E res \in IF aw.type = "Publish"
                     THEN {ReadyOk(aw.arg), ReadyErr(PublishFailed)}
                     ELSE {Pending} :
            /\ holding' = Reduced(aw, res).holding
            /\ actions' = Reduced(aw, res).actions
    /\ queue' = Tail(queue)
    /\ rpc' = "wake"
    /\ UNCHANGED <<chanDead, dispatched, nextId, stateReady, netInit, registry, fut, pc,
                   woken, out, result, trace>>

\* wake_all: every registered waker is woken.
WakeAll ==
    /\ rpc = "wake"
    /\ woken' = [f \in Futures |->
                   woken[f] \/ (~Done(f) /\ \E t \in DOMAIN registry : registry[t] = f)]
    /\ rpc' = "idle"
    /\ UNCHANGED <<chanDead, queue, dispatched, nextId, envVars, registry, fut, pc,
                   out, result, trace>>

\* The state store becomes readable; its first snapshot is published.
StoreInit ==
    /\ ~stateReady
    /\ stateReady' = TRUE
    /\ rpc' = "wake"
    /\ UNCHANGED <<chanDead, queue, dispatched, nextId, holding, netInit, actions,
                   registry, fut, pc, woken, out, result, trace>>

\* The redux loop ends: the action channel is permanently failed.
Kill ==
    /\ rpc = "idle" /\ ~chanDead
    /\ chanDead' = TRUE
    /\ UNCHANGED <<queue, dispatched, nextId, envVars, rpc, registry, fut, pc, woken,
                   out, result, trace>>

----------------------------------------------------------------------------
Poll(f) == PollStart(f) \/ Register(f) \/ TryState(f) \/ Check(f)

Next ==
    \/ \E f \in Futures, a \in Aspects : hold_aspect(f, a)
    \/ \E f \in Futures, x \in Addresses : publish(f, x)
    \/ \E f \in Futures : PollStart(f)
    \/ \E f \in Futures : Register(f)
    \/ \E f \in Futures : TryState(f)
    \/ \E f \in Futures : Check(f)
    \/ Reduce
    \/ WakeAll
    \/ StoreInit
    \/ Kill

Spec == Init /\ [][Next]_vars

\* The executor runs every scheduled task and a started poll runs to its return; the
\* redux loop, while it lives, reduces what is queued and wakes after it publishes.
Fairness ==
    /\ \A f \in Futures : WF_vars(Poll(f))
    /\ WF_vars(Reduce)
    /\ WF_vars(WakeAll)
    /\ WF_vars(StoreInit)

FairSpec == Spec /\ Fairness

----------------------------------------------------------------------------
\* Cancellation: the caller abandons the task that awaits the future.

\* The future is dropped while it is not inside poll and has not returned Ready.
\* Neither HoldAspectFuture nor PublishFuture implements Drop: its fields are
\* released and nothing calls unregister_waker, so the registry is left as it is.
Drop(f) ==
    /\ Created(f) /\ pc[f] = "idle"
    /\ pc' = [pc EXCEPT ![f] = "dropped"]
    /\ woken' = [woken EXCEPT ![f] = FALSE]
    /\ UNCHANGED <<chanDead, queue, dispatched, nextId, envVars, rpc, registry, fut,
                   out, result, trace>>

CancelNext == Next \/ \E f \in Futures : Drop(f)

CancelSpec == Init /\ [][CancelNext]_vars

----------------------------------------------------------------------------
\* A reducer whose bookkeeping is broken: the input of poll's unreachable!() arm.

\* A NetworkActionResponse of a variant other than Publish
OtherResponse == [kind |-> "Other", result |-> Pending]

\* The loop reduces a Publish action but stores a response of another variant
\* under its ActionWrapper.
ReduceMisfiled ==
    /\ rpc = "idle" /\ ~chanDead /\ stateReady /\ queue # <<>>
    /\ Head(queue).type = "Publish"
    /\ actions' = [k \in DOMAIN actions \cup {Head(queue)} |->
                     IF k = Head(queue) THEN OtherResponse ELSE actions[k]]
    /\ queue' = Tail(queue)
    /\ rpc' = "wake"
    /\ UNCHANGED <<chanDead, dispatched, nextId, stateReady, holding, netInit, registry,
                   fut, pc, woken, out, result, trace>>

\* Publishes only, against a reducer that may misfile a response.
FaultNext ==
    \/ \E f \in Futures, x \in Addresses : publish(f, x)
    \/ \E f \in Futures : Poll(f)
    \/ Reduce
    \/ ReduceMisfiled
    \/ WakeAll
    \/ StoreInit
    \/ Kill

FaultSpec == Init /\ [][FaultNext]_vars

----------------------------------------------------------------------------
\* Vocabulary of the properties

Token(f) == fut[f].id
Registered(f) == Token(f) \in DOMAIN registry
InQueue(aw) == \E i \in DOMAIN queue : queue[i] = aw

\* f is parked: its last poll returned Pending and nothing has woken it since
\* (a future not yet polled is scheduled, so it is not parked).
Parked(f) == Created(f) /\ pc[f] = "idle" /\ ~woken[f]

\* The steps of f's poll, as actions
StartsPoll(f) == pc[f] = "idle" /\ pc'[f] # "idle"
Reads(f) == pc[f] = "try_state" /\ pc'[f] # "try_state"
Returns(f) == pc[f] = "check" /\ pc'[f] # "check"

\* A Ready that carries the operation's own result (unit, or the stored publish
\* response, success or domain failure), not a channel or initialization error
Resolved(r) == r.poll = "Ready" /\ r.v \notin {ChannelError, NotInitialized}

ClearsOf(f) ==
    {d \in dispatched : d.by = f /\ d.aw.type = "ClearActionResponse"}

----------------------------------------------------------------------------
\* C1. Registry cleanup: whenever a poll has returned a terminal outcome (Ready
\* with a result or with any error), the future's suspension token is absent from
\* the waker registry.
C1_RegistryCleanup ==
    \A f \in Futures :
        Done(f) /\ result[f].poll = "Ready" => ~Registered(f)

\* C2. No missed wakeup: a parked future whose predicate holds in the published
\* snapshot is registered and has a wake_all due (or has been woken already), and
\* a poll that reads the state while the predicate holds returns Ready: the result
\* of the operation, or for publish the initialization error, never Pending.
NoLostWake(f) == Parked(f) /\ Pred(f) => rpc = "wake" /\ Registered(f)

C2_NoMissedWakeup ==
    [][\A f \in Futures :
         /\ NoLostWake(f)'
         /\ Reads(f) /\ Pred(f) =>
              /\ out'[f].ret.poll = "Ready"
              /\ fut[f].kind = "hold" => out'[f].ret = ReadyOk("()")
              /\ fut[f].kind = "publish" /\ netInit =>
                   out'[f].ret = actions[fut[f].action].result
         /\ Returns(f) =>
              /\ result'[f] = out[f].ret
              /\ pc'[f] = IF out[f].ret = Pending THEN "idle" ELSE "done"]_vars

\* A future that was registered by an earlier poll is polled again, its predicate
\* now true.
C2_Witness ==
    \E f \in Futures : pc[f] = "register" /\ Registered(f) /\ Pred(f)

\* C3. Register-then-check: in every poll cycle the waker is registered under the
\* future's token before the snapshot is read, and is registered when the
\* predicate is checked.
C3_RegisterThenCheck ==
    \A f \in Futures :
        /\ \A i \in DOMAIN trace[f] :
               trace[f][i] = "try_state" =>
                   \E j \in 1..(i - 1) : trace[f][j] = "register"
        /\ pc[f] = "check" => Registered(f) /\ registry[Token(f)] = f

C3_Witness ==
    \E f \in Futures : pc[f] = "check" /\ trace[f] = <<"register", "try_state">>

\* C4. Channel-death short-circuit: a poll that starts while the action channel is
\* permanently failed (the first poll in particular) returns the channel error at
\* once: it registers no waker and reads no snapshot.
C4_ChannelDeathShortCircuit ==
    [][\A f \in Futures :
         StartsPoll(f) /\ chanDead =>
             /\ result'[f] = ReadyErr(ChannelError)
             /\ pc'[f] = "done"
             /\ registry' = registry
             /\ out' = out /\ trace' = trace]_vars

\* A future failed with the channel error whose token was never registered: it
\* failed in its first poll.
C4_Witness ==
    \E f \in Futures :
        Done(f) /\ result[f] = ReadyErr(ChannelError) /\ ~Registered(f)

\* C5. A dead writer loop cannot cause an indefinite hang: a future that is parked
\* with its predicate false when the channel is permanently failed eventually
\* returns the channel error.
C5_DeadChannelNoHang ==
    \A f \in Futures :
        (chanDead /\ Parked(f) /\ ~Pred(f)) ~> (result[f] = ReadyErr(ChannelError))

\* C6. Hold then check: a poll of a HoldAspectFuture finds Ready(Ok(())) exactly
\* when the snapshot it reads holds the aspect, and Pending otherwise; it returns
\* what it found, so it is Ready(Ok(())) only once the reducer has added the aspect.
C6_HoldThenCheck ==
    [][\A f \in Futures :
         fut[f].kind = "hold" =>
             /\ Reads(f) =>
                  out'[f].ret = IF stateReady /\ fut[f].target \in holding
                                THEN ReadyOk("()") ELSE Pending
             /\ Returns(f) => result'[f] = out[f].ret
             /\ result'[f] = ReadyOk("()") => fut[f].target \in holding']_vars

\* A poll of a hold future has found its aspect while another aspect is not held.
C6_Witness ==
    \E f \in Futures :
        /\ fut[f].kind = "hold" /\ pc[f] = "check" /\ out[f].ret = ReadyOk("()")
        /\ holding = {fut[f].target}

\* C7. Response-map boundedness: once a PublishFuture has returned the response
\* stored under its correlation id, it has dispatched ClearActionResponse for that
\* id, and (unless the channel died) that action is queued for the reducer or the
\* entry is already gone from the response map.
Consumed(f) == fut[f].kind = "publish" /\ Done(f) /\ Resolved(result[f])

C7_ResponseMapBounded ==
    \A f \in Futures :
        Consumed(f) =>
            \E d \in ClearsOf(f) :
                /\ d.aw.arg = fut[f].action.id
                /\ chanDead \/ InQueue(d.aw) \/ fut[f].action \notin DOMAIN actions

\* A publish future has consumed its response and the reducer has removed the entry.
C7_Witness ==
    \E f \in Futures :
        Consumed(f) /\ ~chanDead /\ fut[f].action \notin DOMAIN actions

\* C8. Concurrent duplicate publish: two publishes of the same address have
\* different correlation ids and different tokens; a poll that finds a response
\* finds the one stored under its own correlation id; every ClearActionResponse
\* carries the id of the future that dispatched it; and while the channel lives
\* and one of the two is unresolved, a step of their polls or of the redux loop
\* is possible: no interleaving leaves either of them stuck (every such step
\* consumes a wake, a queued action or a step of a poll, so the steps run out
\* only when both have resolved).
Duplicate(f, g) ==
    /\ f # g /\ fut[f].kind = "publish" /\ fut[g].kind = "publish"
    /\ fut[f].target = fut[g].target

C8_ConcurrentDuplicatePublish ==
    /\ [](\A f, g \in Futures :
            Duplicate(f, g) /\ ~chanDead /\ ~(Done(f) /\ Done(g)) =>
                ENABLED (Poll(f) \/ Poll(g) \/ Reduce \/ WakeAll \/ StoreInit))
    /\ [][\A f, g \in Futures :
            Duplicate(f, g) =>
                /\ fut[f].action.id # fut[g].action.id
                /\ Token(f) # Token(g)
                /\ Reads(f) /\ out'[f].clear =>
                     /\ fut[f].action \in DOMAIN actions
                     /\ out'[f].ret = actions[fut[f].action].result
                /\ \A d \in ClearsOf(f)' : d.aw.arg = fut[f].action.id]_vars

\* Two publishes of one address have both resolved, one with the address and one
\* with a domain failure.
C8_Witness ==
    \E f, g \in Futures :
        /\ Duplicate(f, g) /\ Done(f) /\ Done(g)
        /\ result[f] = ReadyOk(fut[f].target)
        /\ result[g] = ReadyErr(PublishFailed)

\* C9. No double-consumption: a poll returns the operation's result only if the
\* future's own predicate holds; a poll that returns Pending leaves the future
\* registered under its own token; the return of one future's poll changes nothing
\* of another future; and a future whose own predicate has become true is never
\* left waiting: its poll can run, or it is registered and a wake_all is due.
C9_NoDoubleConsumption ==
    /\ [](\A f \in Futures :
            Created(f) /\ Pred(f) /\ ~Done(f) =>
                ENABLED Poll(f) \/ (rpc = "wake" /\ Registered(f)))
    /\ [][\A f \in Futures :
            Returns(f) =>
                /\ Resolved(result'[f]) => Pred(f)
                /\ result'[f] = Pending =>
                     Registered(f)' /\ registry'[Token(f)] = f
                /\ \A g \in Futures \ {f} :
                     /\ pc'[g] = pc[g] /\ result'[g] = result[g]
                     /\ Registered(g)' = Registered(g)]_vars

\* One future has resolved; another, registered by an earlier poll, has been woken
\* and is polled again while its own predicate is false.
C9_Witness ==
    \E f, g \in Futures :
        /\ f # g /\ Done(f) /\ Resolved(result[f])
        /\ pc[g] = "register" /\ Registered(g) /\ ~Pred(g) /\ stateReady

\* C10. Subsystem not ready: a poll of a PublishFuture that reads a snapshot whose
\* network is not initialized finds the initialization error, whether or not a
\* response is stored under its correlation id, dispatches nothing and returns
\* that error, not Pending.
C10_SubsystemNotReady ==
    [][\A f \in Futures :
         fut[f].kind = "publish" =>
             /\ Reads(f) /\ stateReady /\ ~netInit =>
                  out'[f].ret = ReadyErr(NotInitialized) /\ ~out'[f].clear
             /\ Returns(f) /\ out[f].ret = ReadyErr(NotInitialized) =>
                  /\ result'[f] = ReadyErr(NotInitialized) /\ pc'[f] = "done"
                  /\ queue' = queue]_vars

\* A poll found the initialization error with the response already stored (no
\* wake has reached the future since the poll started, so the response was there
\* when the snapshot was read).
C10_Witness ==
    \E f \in Futures :
        /\ fut[f].kind = "publish" /\ pc[f] = "check"
        /\ out[f].ret = ReadyErr(NotInitialized)
        /\ fut[f].action \in DOMAIN actions /\ ~woken[f] /\ rpc = "idle"

\* C11. Cancellation does not leak: a future that was dropped after it suspended
\* and before it reached a terminal state has no entry left in the waker
\* registry under its token.
Dropped(f) == pc[f] = "dropped"

C11_CancellationNoLeak ==
    \A f \in Futures : Dropped(f) => ~Registered(f)

\* C12. Suspension-token uniqueness: any two futures, also two that wait on the
\* same aspect or publish the same address, have different suspension tokens;
\* a token is the id of no dispatched ActionWrapper (its own future's correlation
\* id included); and every registry slot holds the waker of the one future whose
\* token it is.
C12_TokenUniqueness ==
    \A f \in Futures :
        Created(f) =>
            /\ \A g \in Futures \ {f} : Created(g) => Token(f) # Token(g)
            /\ \A g \in Futures : Token(f) # fut[g].action.id
            /\ \A d \in dispatched : Token(f) # d.aw.id
            /\ \A t \in DOMAIN registry : registry[t] = f <=> t = Token(f)

\* Two futures of the same kind for the same target are registered at once.
C12_Witness ==
    \E f, g \in Futures :
        /\ f # g /\ Created(f) /\ fut[f].kind = fut[g].kind
        /\ fut[f].target = fut[g].target
        /\ Registered(f) /\ Registered(g) /\ Cardinality(DOMAIN registry) = 2

\* C13. Domain failure is a normal result: a poll of a PublishFuture that looks up
\* its correlation id (the state is readable and the network initialized) and
\* finds a publish response there takes exactly the stored result, a success or
\* a domain failure alike; it then dispatches ClearActionResponse for that id,
\* unregisters its token and returns that result as Ready, not as a fault.
C13_DomainFailureIsResult ==
    [][\A f \in Futures :
         fut[f].kind = "publish" =>
             /\ ( /\ Reads(f) /\ stateReady /\ netInit
                  /\ fut[f].action \in DOMAIN actions
                  /\ actions[fut[f].action].kind = "Publish" ) =>
                    out'[f] = [ret |-> actions[fut[f].action].result,
                               clear |-> TRUE, unregister |-> TRUE]
             /\ Returns(f) /\ out[f].clear =>
                  /\ result'[f] = out[f].ret /\ result'[f].poll = "Ready"
                  /\ pc'[f] = "done" /\ ~Registered(f)'
                  /\ \E d \in ClearsOf(f)' \ ClearsOf(f) :
                        /\ d.aw.arg = fut[f].action.id
                        /\ ~chanDead => InQueue(d.aw)']_vars

\* A publish future has returned a stored domain failure, with its cleanup
\* dispatched and its token unregistered.
C13_Witness ==
    \E f \in Futures :
        /\ fut[f].kind = "publish" /\ Done(f)
        /\ result[f] = ReadyErr(PublishFailed)
        /\ ClearsOf(f) # {} /\ ~Registered(f)

\* C14. Channel error after suspension: a poll of a future whose token is in the
\* registry, started while the action channel is permanently failed, returns the
\* channel error as its terminal outcome, whatever its predicate, and leaves the
\* token unregistered.
C14_ChannelErrorAfterSuspension ==
    [][\A f \in Futures :
         StartsPoll(f) /\ chanDead /\ Registered(f) =>
             /\ result'[f] = ReadyErr(ChannelError) /\ pc'[f] = "done"
             /\ ~Registered(f)']_vars

\* C15. Success-path cleanup: a poll that passed the channel check and reads a
\* snapshot in which its predicate is true (the aspect is held; a response is
\* stored under the correlation id) returns Ready and unregisters its token
\* before it returns, on the first poll as on a later one, so that the registry
\* has no entry for the token afterwards.
C15_SuccessPathCleanup ==
    [][\A f \in Futures :
         /\ Reads(f) /\ Pred(f) =>
               out'[f].ret.poll = "Ready" /\ out'[f].unregister
         /\ Returns(f) /\ out[f].unregister =>
               pc'[f] = "done" /\ ~Registered(f)']_vars

\* C16. Correlation-integrity fault: a poll of a PublishFuture that looks up its
\* correlation id and finds a response of a variant other than Publish ends in
\* the fault: it returns neither Pending nor Ready, the future is not polled
\* again, and the poll dispatches no ClearActionResponse.
C16_CorrelationIntegrityFault ==
    [][\A f \in Futures :
         fut[f].kind = "publish" =>
             /\ ( /\ Reads(f) /\ stateReady /\ netInit
                  /\ fut[f].action \in DOMAIN actions
                  /\ actions[fut[f].action].kind # "Publish" ) =>
                    out'[f].ret = Panicked /\ ~out'[f].clear
             /\ Returns(f) /\ out[f].ret = Panicked =>
                  /\ result'[f] = Panicked
                  /\ result'[f].poll \notin {"Pending", "Ready"}
                  /\ pc'[f] = "done"
                  /\ queue' = queue /\ dispatched' = dispatched]_vars

\* A poll has ended in the fault with nothing but the Publish action dispatched
\* by its future.
C16_Witness ==
    \E f \in Futures :
        /\ fut[f].kind = "publish" /\ Done(f) /\ result[f] = Panicked
        /\ ClearsOf(f) = {}
        /\ actions[fut[f].action] = OtherResponse

\* C17. Pending polls are side-effect-free: every step of a poll that does not
\* end the future (so every step of a poll that returns Pending, its return
\* included) dispatches no action, leaves the holding set, the response map and
\* every other token's registry entry as they are, and never removes the
\* future's own entry; a poll that returns Pending has done nothing but register
\* and read the state, and its own entry then holds the waker of its task.
OthersEntriesKept(f) ==
    \A t \in (DOMAIN registry \cup DOMAIN registry') \ {Token(f)} :
        t \in DOMAIN registry /\ t \in DOMAIN registry' /\ registry'[t] = registry[t]

C17_PendingPollNoSideEffect ==
    [][\A f \in Futures :
         pc'[f] # pc[f] /\ pc'[f] # "done" =>
             /\ queue' = queue /\ dispatched' = dispatched /\ nextId' = nextId
             /\ holding' = holding /\ actions' = actions
             /\ OthersEntriesKept(f)
             /\ Registered(f) => Registered(f)'
             /\ Registered(f)' => registry'[Token(f)] = f
             /\ Returns(f) =>
                  /\ result'[f] = Pending
                  /\ trace[f] = <<"register", "try_state">>
                  /\ registry' = registry /\ Registered(f)]_vars

\* A poll has returned Pending (the future is registered and between polls) while
\* another future is registered and a response is stored.
C17_Witness ==
    \E f, g \in Futures :
        /\ f # g /\ pc[f] = "idle" /\ result[f] = Pending /\ Registered(f)
        /\ Registered(g) /\ actions # <<>>

\* C18. State not obtainable: a poll that passed the channel check and gets no
\* snapshot from try_state has its waker registered under its token when it
\* reads, and returns Pending: it neither fails nor completes, and it stays
\* registered. The store becoming readable makes a wake_all due, and a wake_all
\* schedules every registered future that has not ended, so this one is polled
\* again.
C18_StateNotObtainable ==
    [][\A f \in Futures :
         /\ Reads(f) /\ ~stateReady =>
               /\ out'[f].ret = Pending /\ ~out'[f].clear /\ ~out'[f].unregister
               /\ Registered(f) /\ registry[Token(f)] = f
         /\ Returns(f) /\ ~stateReady =>
               /\ result'[f] = Pending /\ pc'[f] = "idle"
               /\ Registered(f)' /\ registry'[Token(f)] = f
         /\ ~stateReady /\ stateReady' => rpc' = "wake"
         /\ rpc = "wake" /\ rpc' = "idle" /\ Registered(f) /\ ~Done(f) =>
               woken'[f] /\ (pc[f] = "idle" => ENABLED PollStart(f))']_vars

\* A poll has read no snapshot and is about to return, the store still not
\* readable.
C18_Witness ==
    \E f \in Futures :
        /\ pc[f] = "check" /\ ~stateReady /\ ~chanDead
        /\ trace[f] = <<"register", "try_state">> /\ Registered(f)

\* C19. Cleanup is dispatched only on consumption: over all the polls of one
\* PublishFuture at most one ClearActionResponse for its correlation id is ever
\* dispatched, by that future and no one else, and only by the poll that returns
\* Ready with the response it read under that id; a future that ended with the
\* channel error or the initialization error has dispatched none, and its
\* response entry, if there is one, stays in the map.
ClearsFor(f) ==
    {d \in dispatched : d.aw.type = "ClearActionResponse"
                           /\ d.aw.arg = fut[f].action.id}

C19_CleanupOnlyOnConsumption ==
    /\ [](\A f \in Futures :
            /\ fut[f].kind # "publish" => ClearsOf(f) = {}
            /\ fut[f].kind = "publish" =>
                 /\ ClearsFor(f) = ClearsOf(f)
                 /\ Cardinality(ClearsFor(f)) <= 1
                 /\ ClearsFor(f) # {} => Consumed(f))
    /\ [][\A f \in Futures :
            fut[f].kind = "publish" =>
                /\ ClearsFor(f)' # ClearsFor(f) =>
                     /\ Returns(f) /\ result'[f] = out[f].ret
                     /\ Resolved(result'[f]) /\ out[f].clear
                /\ Returns(f) /\ ~Resolved(result'[f]) =>
                     queue' = queue /\ dispatched' = dispatched
                /\ StartsPoll(f) => queue' = queue /\ dispatched' = dispatched
                /\ ( /\ Done(f) /\ ~Resolved(result[f])
                     /\ fut[f].action \in DOMAIN actions ) =>
                       /\ fut[f].action \in DOMAIN actions'
                       /\ actions'[fut[f].action] = actions[fut[f].action]]_vars

\* A publish future has ended with the initialization error while its response
\* is stored; no cleanup was dispatched and nothing is queued for the reducer.
C19_Witness ==
    \E f \in Futures :
        /\ fut[f].kind = "publish" /\ Done(f)
        /\ result[f] = ReadyErr(NotInitialized)
        /\ fut[f].action \in DOMAIN actions
        /\ ClearsFor(f) = {} /\ queue = <<>>

====
